---- MODULE Spec2Model ----
(***************************************************************************)
(* A model of guild/model.py: the model registry (search path, cached      *)
(* index of entry points, lazily constructed Model wrappers), the two      *)
(* kinds of distribution (package-backed, modelfile-backed), the discovery *)
(* of model definitions, and the project-name escaping.                    *)
(*                                                                         *)
(* Python exceptions are modelled as values: an operator that can raise    *)
(* returns a record [exc |-> <exception name or "none">, val |-> <value>]. *)
(* Strings that the code takes apart or encodes are sequences (of code     *)
(* points, of path segments); a full name "pkg/name" is the pair           *)
(* <<pkg, name>>.                                                          *)
(***************************************************************************)
EXTENDS Integers, Sequences, FiniteSets, TLC

VARIABLES
    path,        \* _models' search path (the list that _models.path() returns)
    resources,   \* _models' cached index: NoIndex, or fullname -> entry
    builtFrom,   \* the value of path the cached index was built from
    distobj,     \* the Distribution objects of the current working set
    held,        \* the Model the caller keeps a reference to
    heldKey,     \* the index key held is the instance of, or NoKey
    seen,        \* last values read from held: [fullname, reference]
    last,        \* the most recent registry call since the last path change
    mut,         \* the most recent path change: its kind and, for add_model_path, the root
    fs,          \* the filesystem: state of each model definition file
    record_ok,   \* per package root: whether its RECORD metadata is readable
    escName,     \* input of the escape round trip
    escToken,    \* _escape_project_name(escName), once computed
    escBack,     \* _unescape_project_name(escToken), once computed
    escPc        \* position in the round trip: "start", "escaped", "done"

vars == <<path, resources, builtFrom, distobj, held, heldKey, seen,
          last, mut, fs, record_ok, escName, escToken, escBack, escPc>>

regVars == <<path, resources, builtFrom, distobj, held, heldKey, seen,
             last, mut, fs, record_ok>>

escVars == <<escName, escToken, escBack, escPc>>

----------------------------------------------------------------------------
(* Bounds of the model. *)

MaxPathLen == 2

MaxNameLen == 3

----------------------------------------------------------------------------
(* Generic helpers. *)

Range(s) == {s[i] : i \in 1..Len(s)}

SeqsUpTo(S, n) == UNION {[1..k -> S] : k \in 0..n}

RECURSIVE Flatten(_)
Flatten(ss) == IF ss = <<>> THEN <<>> ELSE Head(ss) \o Flatten(Tail(ss))

Ok(v) == [exc |-> "none", val |-> v]

Raise(e) == [exc |-> e, val |-> <<>>]

----------------------------------------------------------------------------
(* Project-name escaping: base64.b16encode / b16decode over UTF-8.         *)

\* The code points names are drawn from: '.', '/', 'a', e-acute, the euro sign
\* (one-, two- and three-byte UTF-8 encodings).
PathChars == {46, 47, 97, 233, 8364}

\* "0123456789ABCDEF" as code points.
B16Digits == <<48, 49, 50, 51, 52, 53, 54, 55, 56, 57, 65, 66, 67, 68, 69, 70>>

\* str.encode("utf-8") of one code point below 2^16.
Utf8EncodeChar(cp) ==
    IF cp < 128 THEN <<cp>>
    ELSE IF cp < 2048 THEN <<192 + (cp \div 64), 128 + (cp % 64)>>
    ELSE <<224 + (cp \div 4096), 128 + ((cp \div 64) % 64), 128 + (cp % 64)>>

Utf8Encode(s) == Flatten([i \in 1..Len(s) |-> Utf8EncodeChar(s[i])])

IsCont(b) == b >= 128 /\ b < 192

\* bytes.decode("utf-8"), strict: UnicodeDecodeError on a malformed sequence.
RECURSIVE Utf8Decode(_)
Utf8Decode(bs) ==
    IF bs = <<>> THEN Ok(<<>>)
    ELSE LET b == Head(bs) IN
         IF b < 128
         THEN LET r == Utf8Decode(Tail(bs)) IN
              IF r.exc # "none" THEN r ELSE Ok(<<b>> \o r.val)
         ELSE IF b >= 194 /\ b < 224 /\ Len(bs) >= 2 /\ IsCont(bs[2])
         THEN LET r == Utf8Decode(SubSeq(bs, 3, Len(bs))) IN
              IF r.exc # "none" THEN r
              ELSE Ok(<<(b - 192) * 64 + (bs[2] - 128)>> \o r.val)
         ELSE IF b >= 224 /\ b < 240 /\ Len(bs) >= 3 /\ IsCont(bs[2]) /\ IsCont(bs[3])
                 /\ (b - 224) * 4096 + (bs[2] - 128) * 64 + (bs[3] - 128) >= 2048
         THEN LET r == Utf8Decode(SubSeq(bs, 4, Len(bs))) IN
              IF r.exc # "none" THEN r
              ELSE Ok(<<(b - 224) * 4096 + (bs[2] - 128) * 64 + (bs[3] - 128)>> \o r.val)
         ELSE Raise("UnicodeDecodeError")

\* "0123456789abcdef" as code points.
B16DigitsLower == <<48, 49, 50, 51, 52, 53, 54, 55, 56, 57, 97, 98, 99, 100, 101, 102>>

B16EncodeByte_lower(b) == <<B16DigitsLower[(b \div 16) + 1], B16DigitsLower[(b % 16) + 1]>>

\* base64.b16encode: two upper-case hexadecimal digits per byte.
B16EncodeByte(b) == <<B16Digits[(b \div 16) + 1], B16Digits[(b % 16) + 1]>>

B16Encode(bs) == Flatten([i \in 1..Len(bs) |-> B16EncodeByte(bs[i])])

B16Value(c) == CHOOSE v \in 0..15 : B16Digits[v + 1] = c

\* base64.b16decode (casefold=False): binascii.Error on a character outside
\* 0-9A-F or on an odd number of digits.
B16Decode(s) ==
    IF \E i \in 1..Len(s) : s[i] \notin Range(B16Digits) THEN Raise("binascii.Error")
    ELSE IF Len(s) % 2 # 0 THEN Raise("binascii.Error")
    ELSE Ok([i \in 1..(Len(s) \div 2) |->
                B16Value(s[2 * i - 1]) * 16 + B16Value(s[2 * i])])

\* The hexadecimal digits are ASCII, so decoding / encoding them as UTF-8
\* maps each to itself.
_escape_project_name(name) == B16Encode(Utf8Encode(name))

_unescape_project_name(escaped_name) ==
    LET bs == B16Decode(escaped_name) IN
    IF bs.exc # "none" THEN bs ELSE Utf8Decode(bs.val)

----------------------------------------------------------------------------
(* The environment: three roots. r1 and r2 are site directories that each  *)
(* hold an installed copy of the package "pkg"; r3 is a project directory  *)
(* that may hold a model definition file.                                  *)

Roots == {"r1", "r2", "r3"}

PkgRoots == {"r1", "r2"}

\* modelfile.NAMES
NAMES == {"MODEL", "MODELS"}

\* "pkg" and ".modelfile." as code points.
PkgProjectName == <<112, 107, 103>>

ModelfilePrefix == <<46, 109, 111, 100, 101, 108, 102, 105, 108, 101, 46>>

\* The name of a root directory as code points ("r1", "r2", "r3").
RootChars(r) == IF r = "r1" THEN <<114, 49>> ELSE IF r = "r2" THEN <<114, 50>> ELSE <<114, 51>>

\* The model definition files there are, as path segments.
ModelFiles ==
    {<<"r1", "pkg", "MODEL">>, <<"r1", "pkg", "sub", "MODELS">>,
     <<"r2", "pkg", "MODEL">>, <<"r3", "MODEL">>}

\* The states the environment can put each file in.
FileStates(f) ==
    IF f = <<"r3", "MODEL">>
    THEN {"v1", "v2", "unreadable", "malformed", "badref", "absent"}
    ELSE IF f = <<"r1", "pkg", "MODEL">> THEN {"v1", "malformed"}
    ELSE {"v1"}

Def(n, p, i) == [name |-> n, private |-> p, id |-> i]

\* What a well-formed file declares, in declaration order.
FileDefs(f, st) ==
    IF f = <<"r1", "pkg", "MODEL">>
    THEN <<Def("m", FALSE, "r1-MODEL-1"), Def("priv", TRUE, "r1-MODEL-2")>>
    ELSE IF f = <<"r1", "pkg", "sub", "MODELS">>
    THEN <<Def("m", FALSE, "r1-MODELS-1")>>
    ELSE IF f = <<"r2", "pkg", "MODEL">>
    THEN <<Def("m", FALSE, "r2-MODEL-1")>>
    ELSE IF st = "v1"
    THEN <<Def("net", FALSE, "r3-v1-1"), Def("debug", TRUE, "r3-v1-2"),
           Def("net", FALSE, "r3-v1-3")>>
    ELSE <<Def("net", FALSE, "r3-v2-1"), Def("debug", TRUE, "r3-v2-2")>>

\* The RECORD lines of the package installed under a root, each already
\* split at its first comma: <<path, rest>>.
RecordLines(r) ==
    IF r = "r1"
    THEN << << <<"pkg", "__init__.py">>, "sha256=0,10" >>,
            << <<"pkg", "MODEL">>, "sha256=1,20" >>,
            << <<"pkg", "sub", "MODELS">>, "sha256=2,30" >> >>
    ELSE << << <<"pkg", "MODEL">>, "sha256=3,40" >> >>

\* The guild.models entry points the package's entry_points.txt declares.
PkgEntryNames(r) == IF r = "r1" THEN {"m", "priv"} ELSE {"m"}

ModelNames == {"m", "priv", "net", "debug"}

\* modelfile.from_file
from_file(f) ==
    IF f \notin ModelFiles THEN Raise("IOError")
    ELSE IF fs[f] \in {"v1", "v2"}
    THEN Ok([src |-> f, models |-> FileDefs(f, fs[f])])
    ELSE IF fs[f] = "malformed" THEN Raise("ModelfileFormatError")
    ELSE IF fs[f] = "badref" THEN Raise("ModelfileReferenceError")
    ELSE Raise("IOError")

\* os.listdir of a root: the names directly in it.
ListDir(r) ==
    IF r \in PkgRoots THEN {"pkg"}
    ELSE IF fs[<<"r3", "MODEL">>] = "absent" THEN {} ELSE {"MODEL"}

\* modelfile.from_dir: loads the definition file directly in the directory.
from_dir(r) ==
    IF \E n \in NAMES : n \in ListDir(r)
    THEN from_file(<<r, CHOOSE n \in NAMES : n \in ListDir(r)>>)
    ELSE Raise("IOError")

\* dist.get_metadata_lines("RECORD")
get_metadata_lines(r) ==
    IF r \in PkgRoots /\ record_ok[r] THEN Ok(RecordLines(r)) ELSE Raise("IOError")

\* hashlib.md5(bytes).hexdigest(): the file's bytes are identified with its state.
Md5(f) == <<"md5", fs[f]>>

\* open(path, "rb").read()
CanRead(f) == f \in ModelFiles /\ fs[f] \notin {"unreadable", "absent"}

----------------------------------------------------------------------------
(* Distributions.  A Distribution object is                                *)
(*   [kind, location, project_name, src, modelfile]                        *)
(* (src and modelfile are those of a ModelfileDistribution's modelfile and *)
(* are empty for a package distribution); the attributes the code sets on  *)
(* it later are kept apart, in distobj[location].attrs.                    *)

NoDist == [kind |-> "none", location |-> "", project_name |-> <<>>,
           src |-> <<>>, modelfile |-> <<>>]

NoAttrs == [a \in {} |-> <<>>]

DeadObj == [dist |-> NoDist, attrs |-> NoAttrs]

\* os.path.relpath(os.path.dirname(modelfile.src)), the working directory
\* being the parent of the roots; a leading "./" is put before a path that
\* does not start with ".".
_modelfile_project_name(mf) ==
    LET rel == RootChars(mf.src[1])
        pkg_path == IF rel[1] # 46 THEN <<46, 47>> \o rel ELSE rel
        safe_path == _escape_project_name(pkg_path)
    IN ModelfilePrefix \o safe_path

\* ModelfileDistribution.__init__
ModelfileDistribution(mf) ==
    [kind |-> "modelfile", location |-> mf.src[1],
     project_name |-> _modelfile_project_name(mf),
     src |-> mf.src, modelfile |-> mf.models]

\* The Distribution object pkg_resources makes for the package under a root.
PackageDistribution(r) ==
    [kind |-> "package", location |-> r, project_name |-> PkgProjectName,
     src |-> <<>>, modelfile |-> <<>>]

\* _modelfile_entry_map(...)["guild.models"], resp. the package's entry points:
\* the names a distribution declares model entry points for.
EntryNames(dist) ==
    IF dist.kind = "modelfile" THEN {dist.modelfile[i].name : i \in 1..Len(dist.modelfile)}
    ELSE IF dist.kind = "package" THEN PkgEntryNames(dist.location)
    ELSE {}

\* ModelImporter.__init__: raises ModelImportError unless the path is a
\* directory that directly holds a model definition file.
ModelImporter(r) ==
    IF \E n \in NAMES : n \in ListDir(r) THEN Ok(r) ELSE Raise("ModelImportError")

\* The try / except / else of _model_finder around models = from_dir(path).
FinderCatchIoOnly(models) ==
    IF models.exc = "IOError"
    THEN [exc |-> "none", val |-> <<>>, warns |-> 1]
    ELSE IF models.exc # "none"
    THEN [exc |-> models.exc, val |-> <<>>, warns |-> 0]
    ELSE [exc |-> "none", val |-> <<ModelfileDistribution(models.val)>>, warns |-> 0]

FinderCatch(models) ==
    IF models.exc \in {"IOError", "ModelfileFormatError", "ModelfileReferenceError"}
    THEN [exc |-> "none", val |-> <<>>, warns |-> 1]
    ELSE IF models.exc # "none"
    THEN [exc |-> models.exc, val |-> <<>>, warns |-> 0]
    ELSE [exc |-> "none", val |-> <<ModelfileDistribution(models.val)>>, warns |-> 0]

_model_finder_catch_io_only(r) == FinderCatchIoOnly(from_dir(r))

\* _model_finder: the distributions found in a directory (a generator, here the
\* sequence it yields), the exception it lets through and the warnings logged.
_model_finder(r) == FinderCatch(from_dir(r))

\* The try / except / else of _try_acc_modeldefs around models = from_file(path):
\* except Exception logs a warning, else the definitions are appended.
TryAcc(models, acc) ==
    IF models.exc # "none"
    THEN [exc |-> acc.exc, val |-> acc.val, warns |-> acc.warns + 1]
    ELSE [exc |-> acc.exc, val |-> acc.val \o models.val.models, warns |-> acc.warns]

\* _try_acc_modeldefs
_try_acc_modeldefs(f, acc) == TryAcc(from_file(f), acc)

\* os.path.basename
Basename(p) == p[Len(p)]

\* The loop of _load_dist_modeldefs over the RECORD lines (each already split:
\* line[1] is line.split(",", 1)[0]); an exception leaves the loop.
RECURSIVE AccRecord(_, _, _)
AccRecord(location, record, acc) ==
    IF record = <<>> \/ acc.exc # "none" THEN acc
    ELSE IF Basename(Head(record)[1]) \in NAMES
    THEN AccRecord(location, Tail(record),
                   _try_acc_modeldefs(<<location>> \o Head(record)[1], acc))
    ELSE AccRecord(location, Tail(record), acc)

NoDefs == [exc |-> "none", val |-> <<>>, warns |-> 0]

\* The try / except IOError / else of _load_dist_modeldefs around
\* record = dist.get_metadata_lines("RECORD").
LoadFrom(location, record) ==
    IF record.exc = "IOError" THEN [NoDefs EXCEPT !.warns = 1]
    ELSE IF record.exc # "none" THEN [NoDefs EXCEPT !.exc = record.exc]
    ELSE AccRecord(location, record.val, NoDefs)

\* _load_dist_modeldefs: [exc, val: the definitions, warns: warnings logged]
_load_dist_modeldefs(dist) == LoadFrom(dist.location, get_metadata_lines(dist.location))

\* hasattr(dist, name)
hasattr(obj, name) == name \in DOMAIN obj.attrs

\* dist._modeldefs = <the list loaded>; return dist._modeldefs
SetModeldefs(obj, l) ==
    [exc |-> l.exc, val |-> l.val, warns |-> l.warns, loaded |-> 1,
     obj |-> IF l.exc = "none"
             THEN [obj EXCEPT !.attrs = ("_modeldefs" :> l.val) @@ obj.attrs]
             ELSE obj]

\* return dist._modeldefs
GetModeldefs(obj) ==
    [exc |-> "none", val |-> obj.attrs["_modeldefs"], warns |-> 0,
     loaded |-> 0, obj |-> obj]

_ensure_dist_modeldefs_memo(obj) ==
    IF ~hasattr(obj, "_modeldefs")
    THEN SetModeldefs(obj, _load_dist_modeldefs(obj.dist))
    ELSE GetModeldefs(obj)

\* _ensure_dist_modeldefs: tests for the attribute "_modelefs" and sets
\* "_modeldefs".  [exc, val, warns, loaded: calls of _load_dist_modeldefs,
\* obj: the Distribution object afterwards]
_ensure_dist_modeldefs(obj) ==
    IF ~hasattr(obj, "_modelefs")
    THEN SetModeldefs(obj, _load_dist_modeldefs(obj.dist))
    ELSE GetModeldefs(obj)

\* The index of the last / of the first definition named name, 0 if none.
LastIndex(defs, name) ==
    IF \A i \in 1..Len(defs) : defs[i].name # name THEN 0
    ELSE CHOOSE i \in 1..Len(defs) :
            defs[i].name = name /\ \A j \in (i + 1)..Len(defs) : defs[j].name # name

FirstIndex(defs, name) ==
    IF \A i \in 1..Len(defs) : defs[i].name # name THEN 0
    ELSE CHOOSE i \in 1..Len(defs) :
            defs[i].name = name /\ \A j \in 1..(i - 1) : defs[j].name # name

Nth(defs, i) == IF i = 0 THEN Raise("ValueError") ELSE Ok(defs[i])

FirstNamed_last(defs, name) == Nth(defs, LastIndex(defs, name))

\* for modeldef in defs: if modeldef.name == name: return modeldef
\* raise ValueError
FirstNamed(defs, name) == Nth(defs, FirstIndex(defs, name))

\* ModelfileDistribution.get_model
get_model(dist, name) == FirstNamed(dist.modelfile, name)

\* The loop of _modeldef_for_dist over the list _ensure_dist_modeldefs gave.
InEnsured(name, e, r) ==
    [exc |-> r.exc, val |-> r.val, warns |-> e.warns, loaded |-> e.loaded,
     obj |-> e.obj]

ForEnsured(name, e) ==
    IF e.exc # "none" THEN e ELSE InEnsured(name, e, FirstNamed(e.val, name))

ForModelfile(obj, r) ==
    [exc |-> r.exc, val |-> r.val, warns |-> 0, loaded |-> 0, obj |-> obj]

\* _modeldef_for_dist: [exc, val: the definition, warns, loaded, obj]
_modeldef_for_dist(name, obj) ==
    IF obj.dist.kind = "modelfile"
    THEN ForModelfile(obj, get_model(obj.dist, name))
    ELSE ForEnsured(name, _ensure_dist_modeldefs(obj))

----------------------------------------------------------------------------
(* Model.  A Model object is [name, dist, modeldef, _fullname]; None is the *)
(* empty tuple.                                                            *)

None == <<>>

NoModel == [name |-> "", dist |-> NoDist, modeldef |-> Def("", FALSE, ""),
            _fullname |-> None]

\* namespace.apply_namespace: no namespace renames a project here.
apply_namespace(project_name) == project_name

\* "%s/%s" % (pkg_name, name)
Fullname(project_name, name) == <<apply_namespace(project_name), name>>

\* The Model object __init__ leaves, given the definition found (or not).
ModelOf(name, obj, md) ==
    [exc |-> md.exc,
     val |-> IF md.exc = "none"
             THEN [name |-> name, dist |-> obj.dist, modeldef |-> md.val,
                   _fullname |-> None]
             ELSE NoModel,
     warns |-> md.warns, loaded |-> md.loaded, obj |-> md.obj]

\* Model.__init__: [exc, val: the Model, warns, loaded, obj]
ModelInit(name, obj) == ModelOf(name, obj, _modeldef_for_dist(name, obj))

\* Model.fullname: the value read and the Model afterwards.
ModelFullname(m) ==
    LET v == IF m._fullname = None THEN Fullname(m.dist.project_name, m.name)
             ELSE m._fullname
    IN [val |-> v, model |-> [m EXCEPT !._fullname = v]]

\* _modelfile_hash
_modelfile_hash(f) == IF ~CanRead(f) THEN <<"-", "">> ELSE Md5(f)

\* _modelfile_dist_ref: the absolute path and the hash.
_modelfile_dist_ref(src) == [where |-> src, hash |-> _modelfile_hash(src)]

\* Model.reference: "file:<path> <hash> <name>" for a Model of a
\* ModelfileDistribution (the distribution has a modelfile attribute),
\* "dist:<dist> <name>" otherwise.
ModelReference(m) ==
    IF m.dist.kind = "modelfile"
    THEN LET r == _modelfile_dist_ref(m.dist.src) IN
         [kind |-> "file", where |-> r.where, hash |-> r.hash, name |-> m.name]
    ELSE [kind |-> "dist", where |-> <<m.dist.location>>, hash |-> <<"", "">>,
          name |-> m.name]

----------------------------------------------------------------------------
(* The registry _models = EntryPointResources("guild.models", "model"):    *)
(* the search path and the cached index.  The index maps a full name to    *)
(* an entry [name, root, inst]: the entry point's name, the root whose     *)
(* Distribution object declares it, and the Model constructed for it on    *)
(* the first lookup (NoModel before).                                      *)

NoKey == <<None, "">>

EmptyMap == [k \in {} |-> [name |-> "", root |-> "", inst |-> NoModel]]

NoIndex == [built |-> FALSE, map |-> EmptyMap]

NoObjs == [r \in Roots |-> DeadObj]

R3Project == _modelfile_project_name([src |-> <<"r3", "MODEL">>, models |-> <<>>])

\* The full names there can be, in the order iteration yields them.
KeyOrder ==
    <<Fullname(R3Project, "debug"), Fullname(R3Project, "net"),
      Fullname(PkgProjectName, "m"), Fullname(PkgProjectName, "priv")>>

\* The names for_name is called with: every full name, and one no root supplies.
LookupKeys == Range(KeyOrder) \cup {Fullname(PkgProjectName, "net")}

\* The distributions found under one root: the installed package of a site
\* directory, or what the finder registered for ModelImporter yields.
FindDistributions(r) ==
    IF r \in PkgRoots
    THEN [exc |-> "none", val |-> <<PackageDistribution(r)>>, warns |-> 0]
    ELSE IF ModelImporter(r).exc = "none" THEN _model_finder(r)
    ELSE [exc |-> "none", val |-> <<>>, warns |-> 0]

\* A distribution found under root r enters the index: its entry points under
\* the full names that are not in it yet.
AddDist(acc, r, dist, warns) ==
    [acc EXCEPT
       !.scans = @ + 1,
       !.warns = @ + warns,
       !.map = [k \in DOMAIN acc.map
                        \cup {Fullname(dist.project_name, n) : n \in EntryNames(dist)} |->
                  IF k \in DOMAIN acc.map THEN acc.map[k]
                  ELSE [name |-> k[2], root |-> r, inst |-> NoModel]],
       !.D = IF acc.D[r].dist.kind = "none"
             THEN [acc.D EXCEPT ![r] = [dist |-> dist, attrs |-> NoAttrs]]
             ELSE acc.D]

AddFound(acc, r, f) ==
    IF f.exc # "none"
    THEN [acc EXCEPT !.exc = f.exc, !.scans = @ + 1, !.warns = @ + f.warns]
    ELSE IF f.val = <<>>
    THEN [acc EXCEPT !.scans = @ + 1, !.warns = @ + f.warns]
    ELSE AddDist(acc, r, f.val[1], f.warns)

\* One root of the rebuild.
BuildRoot(acc, r) == AddFound(acc, r, FindDistributions(r))

RECURSIVE BuildFrom(_, _)
BuildFrom(roots, acc) ==
    IF roots = <<>> \/ acc.exc # "none" THEN acc
    ELSE BuildFrom(Tail(roots), BuildRoot(acc, Head(roots)))

\* The index the call works on: the cached one, or a rebuild over the path.
Ensure ==
    IF resources.built
    THEN [exc |-> "none", map |-> resources.map, D |-> distobj,
          scans |-> 0, warns |-> 0, rebuilt |-> FALSE, val |-> NoModel]
    ELSE BuildFrom(path, [exc |-> "none", map |-> EmptyMap, D |-> NoObjs,
                          scans |-> 0, warns |-> 0,
                          rebuilt |-> TRUE, val |-> NoModel])

\* The first lookup of an entry: Model(ep) is constructed and kept.
Construct(st, key, root, mi) ==
    IF mi.exc # "none"
    THEN [st EXCEPT !.D[root] = mi.obj, !.scans = @ + mi.loaded,
                    !.warns = @ + mi.warns, !.exc = mi.exc]
    ELSE [st EXCEPT !.D[root] = mi.obj, !.scans = @ + mi.loaded,
                    !.warns = @ + mi.warns, !.map[key].inst = mi.val,
                    !.val = mi.val]

LookupEntry(st, key, e) ==
    IF e.inst # NoModel THEN [st EXCEPT !.val = e.inst]
    ELSE Construct(st, key, e.root, ModelInit(e.name, st.D[e.root]))

\* The lookup of one full name: the entry's Model, constructed now if this is
\* the entry's first lookup.
Lookup(st, key) ==
    IF st.exc # "none" THEN st
    ELSE IF key \notin DOMAIN st.map THEN [st EXCEPT !.exc = "LookupError"]
    ELSE LookupEntry(st, key, st.map[key])

\* The registry's iteration: the Model of every entry, in name order; an
\* exception of a lookup ends it.  items: the Models produced.
RECURSIVE IterFrom(_, _, _)
RECURSIVE IterNext(_, _, _)
IterNext(keys, st1, items) ==
    IF st1.exc # "none" THEN [st |-> st1, items |-> items]
    ELSE IterFrom(Tail(keys), st1, Append(items, st1.val))

IterFrom(keys, st, items) ==
    IF keys = <<>> \/ st.exc # "none" THEN [st |-> st, items |-> items]
    ELSE IterNext(keys, Lookup(st, Head(keys)), items)

KeysOf(map) == SelectSeq(KeyOrder, LAMBDA k : k \in DOMAIN map)

RegistryIter(st) == IterFrom(KeysOf(st.map), st, <<>>)

NotPrivate(m) == ~m.modeldef.private

iter_models_unfiltered(items) == items

\* iter_models: what the generator yields of the registry's items.
iter_models(items) == SelectSeq(items, NotPrivate)

\* iter_
iter_(items) == SelectSeq(items, NotPrivate)

----------------------------------------------------------------------------
(* Observations.                                                           *)

NoRef == [kind |-> "none", where |-> <<>>, hash |-> <<"", "">>, name |-> ""]

NoSeen == [fullname |-> None, reference |-> NoRef]

NoCall == [op |-> "none", arg |-> NoKey, exc |-> "none", result |-> <<>>,
           scans |-> 0, warns |-> 0, rebuilt |-> FALSE, usedPath |-> <<>>,
           again |-> FALSE, same |-> FALSE]

\* The Models of a result as objects: what they are apart from the memoized
\* field, which a read in between may have filled.
Objects(ms) == [i \in 1..Len(ms) |-> [ms[i] EXCEPT !._fullname = None]]

\* The record of a call that ended in state st of the registry.  again: the
\* call repeats the lookup or iteration before it; same: with the same result.
Call(op, arg, st, result) ==
    [op |-> op, arg |-> arg, exc |-> st.exc, result |-> result,
     scans |-> st.scans, warns |-> st.warns, rebuilt |-> st.rebuilt,
     usedPath |-> IF st.rebuilt THEN path ELSE builtFrom,
     again |-> op # "Model" /\ last.op = op /\ last.arg = arg,
     same |-> op # "Model" /\ last.op = op /\ last.arg = arg
              /\ last.exc = st.exc /\ Objects(last.result) = Objects(result)]

\* What a call leaves in the registry.  A rebuild that raised leaves no index.
Commit(st) ==
    IF st.rebuilt /\ st.map = EmptyMap /\ st.exc \notin {"none", "LookupError"}
    THEN UNCHANGED <<resources, builtFrom, distobj>>
    ELSE /\ resources' = [built |-> TRUE, map |-> st.map]
         /\ builtFrom' = IF st.rebuilt THEN path ELSE builtFrom
         /\ distobj' = st.D

----------------------------------------------------------------------------
(* The operations.                                                         *)

\* The states the filesystem can be in, and the package metadata (the RECORD
\* of the package under r2 is always readable).
FsStates ==
    {files \in [ModelFiles -> UNION {FileStates(f) : f \in ModelFiles}] :
        \A f \in ModelFiles : files[f] \in FileStates(f)}

RecordStates == {rec \in [PkgRoots -> BOOLEAN] : rec["r2"]}

AllGood == [f \in ModelFiles |-> "v1"]

AllReadable == [r \in PkgRoots |-> TRUE]

\* The state with path p, no index built and no call made.
Start(p, m, name, pc, files, rec) ==
    /\ path = p
    /\ resources = NoIndex
    /\ builtFrom = <<>>
    /\ distobj = NoObjs
    /\ held = NoModel
    /\ heldKey = NoKey
    /\ seen = NoSeen
    /\ last = NoCall
    /\ mut = [kind |-> m, root |-> ""]
    /\ fs = files
    /\ record_ok = rec
    /\ escName = name
    /\ escToken = <<>>
    /\ escBack = Ok(<<>>)
    /\ escPc = pc

\* After import: _models has an empty path; the filesystem is in any state.
Init ==
    \E files \in FsStates, rec \in RecordStates :
        Start(<<>>, "init", <<>>, "idle", files, rec)

\* _models.set_path: replaces the path and drops the cached index (and with
\* it the working set's Distribution objects).
RegistrySetPath(p) ==
    /\ path' = p
    /\ resources' = NoIndex
    /\ builtFrom' = <<>>
    /\ distobj' = NoObjs
    /\ heldKey' = NoKey
    /\ last' = NoCall

\* set_path
set_path(p) ==
    /\ RegistrySetPath(p)
    /\ mut' = [kind |-> "set_path", root |-> ""]
    /\ UNCHANGED <<held, seen, fs, record_ok, escVars>>

\* list.remove: removes the first equal element; ValueError when there is none.
ListRemove(l, x) ==
    IF x \notin Range(l) THEN Raise("ValueError")
    ELSE LET i == CHOOSE i \in 1..Len(l) : l[i] = x /\ \A j \in 1..(i - 1) : l[j] # x
         IN Ok(SubSeq(l, 1, i - 1) \o SubSeq(l, i + 1, Len(l)))

add_model_path_append(model_path) ==
    LET removed == ListRemove(path, model_path)
        p1 == IF removed.exc = "ValueError" THEN path ELSE removed.val
        p2 == Append(p1, model_path)
    IN /\ RegistrySetPath(p2)
       /\ mut' = [kind |-> "add_model_path", root |-> model_path]
       /\ UNCHANGED <<held, seen, fs, record_ok, escVars>>

add_model_path_keep_index(model_path) ==
    LET removed == ListRemove(path, model_path)
        p1 == IF removed.exc = "ValueError" THEN path ELSE removed.val
        p2 == <<model_path>> \o p1
    IN /\ path' = p2
       /\ last' = NoCall
       /\ mut' = [kind |-> "add_model_path", root |-> model_path]
       /\ UNCHANGED <<resources, builtFrom, distobj, heldKey,
                      held, seen, fs, record_ok, escVars>>

\* add_model_path: path.remove (ValueError passed over), path.insert(0, ...),
\* _models.set_path(path).
add_model_path(model_path) ==
    LET removed == ListRemove(path, model_path)
        p1 == IF removed.exc = "ValueError" THEN path ELSE removed.val
        p2 == <<model_path>> \o p1
    IN /\ RegistrySetPath(p2)
       /\ mut' = [kind |-> "add_model_path", root |-> model_path]
       /\ UNCHANGED <<held, seen, fs, record_ok, escVars>>

\* What a lookup that ended in st leaves.
ForNameEnd(name, st) ==
    /\ Commit(st)
    /\ last' = Call("for_name", name, st,
                    IF st.exc = "none" THEN <<st.val>> ELSE <<>>)
    /\ UNCHANGED <<path, mut, held, heldKey, seen, fs, record_ok, escVars>>

\* for_name
for_name(name) == ForNameEnd(name, Lookup(Ensure, name))

\* What an iteration that ended in it.st, having yielded the result, leaves.
IterEnd(op, st, result) ==
    /\ Commit(st)
    /\ last' = Call(op, NoKey, st, result)
    /\ UNCHANGED <<path, mut, held, heldKey, seen, fs, record_ok, escVars>>

IterModelsOver(it) == IterEnd("iter_models", it.st, iter_models(it.items))

IterOver(it) == IterEnd("iter_", it.st, iter_(it.items))

\* A caller running iter_models() to its end.
IterModels == IterModelsOver(RegistryIter(Ensure))

\* A caller running iter_() to its end.
Iter_ == IterOver(RegistryIter(Ensure))

NewModelEnd(name, r, mi) ==
    /\ distobj' = [distobj EXCEPT ![r] = mi.obj]
    /\ last' = Call("Model", Fullname(distobj[r].dist.project_name, name),
                    [exc |-> mi.exc, scans |-> mi.loaded, warns |-> mi.warns,
                     rebuilt |-> FALSE],
                    IF mi.exc = "none" THEN <<mi.val>> ELSE <<>>)
    /\ UNCHANGED <<path, resources, builtFrom, mut, held, heldKey, seen,
                   fs, record_ok, escVars>>

\* A caller constructing Model(ep) itself, for an entry point of any name on
\* a Distribution object of the working set.
NewModel(name, r) ==
    /\ distobj[r].dist.kind # "none"
    /\ NewModelEnd(name, r, ModelInit(name, distobj[r]))

\* The caller keeps the Model for_name has just given it (another Model than
\* the one it holds).
Keep ==
    /\ last.op = "for_name"
    /\ last.result # <<>>
    /\ last.arg # heldKey
    /\ held' = last.result[1]
    /\ heldKey' = last.arg
    /\ seen' = NoSeen
    /\ UNCHANGED <<path, resources, builtFrom, distobj, last, mut, fs,
                   record_ok, escVars>>

\* The caller reads held.fullname.
ReadFullname ==
    LET r == ModelFullname(held) IN
    /\ held # NoModel
    /\ held' = r.model
    /\ seen' = [seen EXCEPT !.fullname = r.val]
    /\ resources' = IF heldKey = NoKey THEN resources
                    ELSE [resources EXCEPT !.map[heldKey].inst = r.model]
    /\ UNCHANGED <<path, builtFrom, distobj, heldKey, last, mut, fs,
                   record_ok, escVars>>

\* The caller reads held.reference.
ReadReference ==
    /\ held # NoModel
    /\ seen' = [seen EXCEPT !.reference = ModelReference(held)]
    /\ UNCHANGED <<path, resources, builtFrom, distobj, held, heldKey,
                   last, mut, fs, record_ok, escVars>>

\* The environment rewrites, breaks, removes or restores a definition file.
ChangeFile(f, st) ==
    /\ st # fs[f]
    /\ fs' = [fs EXCEPT ![f] = st]
    /\ UNCHANGED <<path, resources, builtFrom, distobj, held, heldKey,
                   seen, last, mut, record_ok, escVars>>

PathRoom(r) == Len(path) < MaxPathLen \/ r \in Range(path)

Next ==
    \/ \E p \in SeqsUpTo(Roots, MaxPathLen) : set_path(p)
    \/ \E r \in Roots : PathRoom(r) /\ add_model_path(r)
    \/ \E k \in LookupKeys : for_name(k)
    \/ IterModels
    \/ Iter_

Spec == Init /\ [][Next]_vars

----------------------------------------------------------------------------
(* A caller that keeps Models and reads their lazy fields while the        *)
(* environment changes; the path is one root, as set_path left it.         *)

InitHeld ==
    \E r \in Roots, rec \in RecordStates :
        Start(<<r>>, "set_path", <<>>, "idle", AllGood, rec)

NextHeld ==
    \/ \E k \in LookupKeys : for_name(k)
    \/ Keep
    \/ ReadFullname
    \/ ReadReference
    \/ \E f \in ModelFiles : \E st \in FileStates(f) : ChangeFile(f, st)

SpecHeld == InitHeld /\ [][NextHeld]_vars

----------------------------------------------------------------------------
(* A caller that constructs Model(ep) itself on the Distribution objects   *)
(* of a working set; the path is any path set_path may have left.          *)

InitModel ==
    \E p \in SeqsUpTo(Roots, MaxPathLen) \ {<<>>} :
        \E files \in FsStates, rec \in RecordStates :
            Start(p, "set_path", <<>>, "idle", files, rec)

NextModel ==
    \/ \E k \in LookupKeys : for_name(k)
    \/ \E n \in ModelNames, r \in Roots : NewModel(n, r)

SpecModel == InitModel /\ [][NextModel]_vars

----------------------------------------------------------------------------
(* The escape round trip, on its own: a name is chosen, escaped, unescaped. *)

InitEsc ==
    \E name \in SeqsUpTo(PathChars, MaxNameLen) : Start(<<>>, "init", name, "start", AllGood, AllReadable)

Escape ==
    /\ escPc = "start"
    /\ escToken' = _escape_project_name(escName)
    /\ escPc' = "escaped"
    /\ UNCHANGED <<escName, escBack, regVars>>

Unescape ==
    /\ escPc = "escaped"
    /\ escBack' = _unescape_project_name(escToken)
    /\ escPc' = "done"
    /\ UNCHANGED <<escName, escToken, regVars>>

NextEsc == Escape \/ Unescape

SpecEsc == InitEsc /\ [][NextEsc]_vars

----------------------------------------------------------------------------
(* The claims.                                                             *)

PkgM == Fullname(PkgProjectName, "m")

\* Whether the distribution under root r declares an entry point of this full name.
Supplies(r, key) ==
    IF r \in PkgRoots THEN key[1] = PkgProjectName /\ key[2] \in PkgEntryNames(r)
    ELSE key[1] = R3Project

FirstSupplier(key) ==
    path[CHOOSE i \in 1..Len(path) :
            Supplies(path[i], key) /\ \A j \in 1..(i - 1) : ~Supplies(path[j], key)]

IsLookup(op) == op \in {"for_name", "iter_models", "iter_"}

\* C1: a Model that for_name returns comes from the first root of the current
\* path that supplies the name; when the last path change was
\* add_model_path(R) and R supplies the name, it comes from R.
PriorityOrdering_C1 ==
    (last.op = "for_name" /\ last.exc = "none") =>
        /\ \E i \in 1..Len(path) : Supplies(path[i], last.arg)
        /\ last.result[1].dist.location = FirstSupplier(last.arg)
        /\ (mut.kind = "add_model_path" /\ Supplies(mut.root, last.arg))
              => last.result[1].dist.location = mut.root

\* add_model_path(r2) moved r2 before r1, and for_name now gives r2's Model.
PriorityFlipped_C1 ==
    /\ mut = [kind |-> "add_model_path", root |-> "r2"]
    /\ path = <<"r2", "r1">>
    /\ last.op = "for_name" /\ last.arg = PkgM /\ last.exc = "none"
    /\ last.result[1].dist.location = "r2"
    /\ last.result[1].modeldef.id = "r2-MODEL-1"

\* C2: a cached index was built from the current path, and so was the index
\* every lookup or iteration since the last path change worked on.
IndexOfCurrentPath_C2 ==
    /\ resources.built => builtFrom = path
    /\ IsLookup(last.op) => last.usedPath = path

\* A lookup answered from the cache, after add_model_path changed the path.
CachedAfterAdd_C2 ==
    /\ mut.kind = "add_model_path"
    /\ Len(path) = 2
    /\ last.op = "for_name" /\ last.exc = "none" /\ ~last.rebuilt
    /\ resources.built

Count(l, x) == Cardinality({i \in 1..Len(l) : l[i] = x})

Without(l, x) == SelectSeq(l, LAMBDA y : y # x)

\* C3: after add_model_path(root) the path has root first, holds root exactly
\* once, and holds the other roots in the order they were in.
AddModelPathDedups_C3 ==
    [][\A r \in Roots :
          add_model_path(r) =>
              /\ Head(path') = r
              /\ Count(path', r) = 1
              /\ Without(path', r) = Without(path, r)]_vars

Insts == {resources.map[k].inst : k \in DOMAIN resources.map} \ {NoModel}

\* C4: iteration yields no Model whose definition is private, an iteration
\* that ran to its end yields every other Model of the index, and for_name
\* returns the Model of the entry it names, private or not.
PrivateFiltering_C4 ==
    /\ last.op \in {"iter_models", "iter_"} =>
          /\ \A i \in 1..Len(last.result) : ~last.result[i].modeldef.private
          /\ last.exc = "none" =>
                /\ \A k \in DOMAIN resources.map : resources.map[k].inst # NoModel
                /\ Range(last.result) = {m \in Insts : ~m.modeldef.private}
    /\ (last.op = "for_name" /\ last.arg \in DOMAIN resources.map
          /\ resources.map[last.arg].inst # NoModel) =>
          /\ last.exc = "none"
          /\ last.result = <<resources.map[last.arg].inst>>

\* iter_models ran to its end over an index that holds a private Model, and
\* yielded the others.
PrivateHidden_C4 ==
    /\ last.op = "iter_models" /\ last.exc = "none"
    /\ last.result # <<>>
    /\ \E m \in Insts : m.modeldef.private /\ m \notin Range(last.result)

DiscoveryErrors == {"IOError", "ModelfileFormatError", "ModelfileReferenceError"}

\* C5: no call ends in a discovery failure; a package whose RECORD cannot be
\* read contributes no definitions, with a warning; a definition file of a
\* manifest that does not load is skipped with a warning and the other
\* file's definitions are collected; the finder yields nothing, with a
\* warning, for a directory whose definition file does not load; and the
\* entry points of the package roots on the path are in the index whatever
\* the other roots hold.
GracefulDegradation_C5 ==
    /\ last.exc \notin DiscoveryErrors
    /\ \A r \in PkgRoots :
          ~record_ok[r] =>
              _load_dist_modeldefs(PackageDistribution(r)) =
                  [exc |-> "none", val |-> <<>>, warns |-> 1]
    /\ (record_ok["r1"] /\ fs[<<"r1", "pkg", "MODEL">>] = "malformed") =>
          _load_dist_modeldefs(PackageDistribution("r1")) =
              [exc |-> "none",
               val |-> FileDefs(<<"r1", "pkg", "sub", "MODELS">>, "v1"),
               warns |-> 1]
    /\ fs[<<"r3", "MODEL">>] \in {"malformed", "badref", "unreadable"} =>
          _model_finder("r3") = [exc |-> "none", val |-> <<>>, warns |-> 1]
    /\ (resources.built /\ \E i \in 1..Len(path) : path[i] \in PkgRoots) =>
          PkgM \in DOMAIN resources.map

\* An index was built over a path with r3, whose definition file is
\* malformed, and a package root: the package's entry points are there.
BadRootSkipped_C5 ==
    /\ fs[<<"r3", "MODEL">>] = "malformed"
    /\ path = <<"r3", "r1">>
    /\ IsLookup(last.op) /\ last.rebuilt /\ last.warns >= 1
    /\ resources.built
    /\ PkgM \in DOMAIN resources.map
    /\ \A k \in DOMAIN resources.map : k[1] # R3Project

\* C6: unescaping the escaped name gives the name back, and no other name
\* within the bounds escapes to the same token.
RoundTrip_C6 ==
    /\ escPc = "done" => escBack = Ok(escName)
    /\ escPc \in {"escaped", "done"} =>
          \A q \in SeqsUpTo(PathChars, MaxNameLen) :
              q # escName => _escape_project_name(q) # escToken

\* A name with a '/' and a character of several bytes went round.
RoundTripDone_C6 ==
    /\ escPc = "done"
    /\ Len(escName) = MaxNameLen
    /\ 47 \in Range(escName)
    /\ 8364 \in Range(escName)
    /\ Len(escToken) > 2 * Len(escName)

\* C7: a call that repeats the call before it, with no path change in
\* between, gives the same result and scans nothing.
IdempotentRebuild_C7 == last.again => (last.same /\ last.scans = 0)

\* The definitions a Distribution object declares, in declaration order.
Declared(obj) ==
    IF obj.dist.kind = "modelfile" THEN obj.dist.modelfile
    ELSE _load_dist_modeldefs(obj.dist).val

IsFirstNamed(defs, name, d) ==
    \E i \in 1..Len(defs) :
        defs[i] = d /\ d.name = name /\ \A j \in 1..(i - 1) : defs[j].name # name

\* C8: for every Distribution object of the working set and every name,
\* _modeldef_for_dist gives the first definition of that name in declaration
\* order, or raises ValueError when there is none, and then Model.__init__
\* leaves no Model.
FirstMatch_C8 ==
    /\ \A r \in Roots, n \in ModelNames :
          distobj[r].dist.kind # "none" =>
              /\ _modeldef_for_dist(n, distobj[r]).exc \in {"none", "ValueError"}
              /\ _modeldef_for_dist(n, distobj[r]).exc = "none" =>
                    IsFirstNamed(Declared(distobj[r]), n,
                                 _modeldef_for_dist(n, distobj[r]).val)
              /\ _modeldef_for_dist(n, distobj[r]).exc = "ValueError" =>
                    /\ \A i \in 1..Len(Declared(distobj[r])) :
                          Declared(distobj[r])[i].name # n
                    /\ ModelInit(n, distobj[r]).val = NoModel
                    /\ ModelInit(n, distobj[r]).exc = "ValueError"
    /\ (last.op = "Model" /\ last.exc # "none") =>
          (last.exc = "ValueError" /\ last.result = <<>>)
    /\ (last.op \in {"Model", "for_name"} /\ last.exc = "none") =>
          last.result[1].modeldef.name = last.arg[2]

\* A name the definition file does not declare raised ValueError on the
\* modelfile distribution, whose two definitions named "net" resolved to the
\* first; the package's two definitions named "m" resolved to the first.
FirstOfTwo_C8 ==
    /\ last.op = "Model" /\ last.exc = "ValueError" /\ last.arg[1] = R3Project
    /\ last.result = <<>>
    /\ \E m \in Insts : m.modeldef.id = "r3-v1-1"
    /\ \E m \in Insts : m.modeldef.id = "r1-MODEL-1"

\* C9: once fullname, or reference, has been read on a Model, every later
\* read of it on that Model gives the same value.
LazyFieldsStable_C9 ==
    [][/\ (seen.fullname # None /\ seen'.fullname # None) =>
              seen'.fullname = seen.fullname
       /\ (seen.reference # NoRef /\ seen'.reference # NoRef) =>
              seen'.reference = seen.reference]_vars

\* C10: a Distribution object whose definitions have been loaded is not
\* loaded again: _ensure_dist_modeldefs returns the list it kept.
LoadedOnce_C10 ==
    \A r \in PkgRoots :
        hasattr(distobj[r], "_modeldefs") =>
            /\ _ensure_dist_modeldefs(distobj[r]).loaded = 0
            /\ _ensure_dist_modeldefs(distobj[r]).val = distobj[r].attrs["_modeldefs"]

====
